---- MODULE Spec2Model ----
(***************************************************************************)
(* A model of src/geometry-buffering.js: the power-of-two slab allocator   *)
(* (FreeListArray / FreeList), the static batch allocator                  *)
(* (GeometryAllocator) and the instanced batch allocator                   *)
(* (InstancedGeometryAllocator).                                           *)
(*                                                                         *)
(* The classes are modelled as records and their methods as operators that *)
(* take the object and return the object after the call together with the  *)
(* returned value or the thrown error.  A throw keeps every assignment     *)
(* made before it, as in JavaScript.                                       *)
(***************************************************************************)
EXTENDS Integers, Sequences, FiniteSets, TLC

\* --------------------------------------------------------------- bounds
\* the stand-alone FreeList is constructed with alignment 1 and a size in
\* 1..Capacity, or with alignment 3 and a size 3 * n, n in 1..PosCapacity
Capacity == 4
PosCapacity == 2
\* largest size passed to FreeList.alloc
MaxSize == 3

\* GeometryAllocator is constructed with bufferSize = BufferSize
BufferSize == 3
\* frees of an already freed handle are tried while numDraws > -MaxStale
MaxStale == 1
\* the caller of an allocator makes at most MaxCalls calls
MaxCalls == 6
\* largest numPositions and numIndices passed to GeometryAllocator.alloc
MaxPositions == 1
MaxIndices == 2
\* maxDrawCallsPerGeometry and maxInstancesPerDrawCall passed to the
\* InstancedGeometryAllocator
DrawCallsPerGeometry == 2
InstancesPerDrawCall == 2
\* the number of calls made on an InstancedGeometryAllocator
MaxDrawCallOps == 5
\* maxDrawCallsPerGeometry of the InstancedGeometryAllocator that is queried
QueryDrawCallsPerGeometry == 1
\* the first item and the number of items of an updateTexture range
MaxItemIndex == 18
MaxItemCount == 34

\* ------------------------------------------------------------ constants
\* const maxNumDraws = 1024 in the source; scaled down so that the draw
\* arrays fill up within the explored runs
maxNumDraws == 2
\* this.geometry.index.array.BYTES_PER_ELEMENT of the Uint32Array index
BYTES_PER_ELEMENT == 4
\* what a read outside a typed array gives (JavaScript's undefined); the
\* numbers the arrays hold are all >= 0
Undefined == -1
\* const maxSlotEntries = 4096 in the source; scaled down so that the
\* circular buffer wraps around within the explored runs
maxSlotEntries == 3

VARIABLES
  fl,        \* the stand-alone FreeList object
  ret,       \* the last call on it: operation, argument, outcome
  live,      \* observer: the <<index, class>> of the allocations the caller holds
  freed,     \* observer: the <<index, class>> freed and not re-issued since
  run        \* observer: the number of calls so far if all were successful alloc(1), else -1

VARIABLES
  pending    \* the <<index, class>> freed and not yet reallocated, oldest first

flVars == <<fl, ret, live, freed, run, pending>>

VARIABLES
  ga,            \* the GeometryAllocator object
  globalCamera,  \* what the free identifier `camera` of testBoundingFn resolves to
  gaRet,         \* the last call on ga: operation, outcome, output arrays
  gaLive,        \* observer: the handles the caller holds, with what it asked for
  gaFreed,       \* observer: the freed handle the caller has kept, if any
  calls          \* observer: the number of calls made on the allocator

gaVars == <<ga, globalCamera, gaRet, gaLive, gaFreed, calls>>

VARIABLES
  ia,        \* the InstancedGeometryAllocator
  iaRet,     \* the last call on it and its outcome
  iaLive,    \* the DrawCallBindings the caller holds and has not freed
  iaFreed,   \* a freed DrawCallBinding the caller kept
  iaCalls    \* the number of calls made on it

iaVars == <<ia, iaRet, iaLive, iaFreed, iaCalls>>

VARIABLES
  ut         \* the last DrawCallBinding.updateTexture call and the copies it issued

utVars == <<ut>>

\* the texture being sized by the InstancedGeometryAllocator constructor: the
\* configuration and the attribute's description, then the side chosen
VARIABLES
  tx

txVars == <<tx>>

\* ------------------------------------------------------- pure functions

\* Math.floor(Math.log2(size)) in the place of Math.ceil(Math.log2(size))
_getClosestPowerOf2_floor(size) ==
  CHOOSE c \in 0..30 : 2^c <= size /\ 2^(c + 1) > size

\* Math.ceil(Math.log2(size)) for an integer size >= 1
_getClosestPowerOf2(size) ==
  CHOOSE c \in 0..30 : 2^c >= size /\ (c = 0 \/ 2^(c - 1) < size)

\* an address left as it is
_align_none(addr, n) == addr

\* align a memory address
_align(addr, n) ==
  LET r == addr % n IN IF r = 0 THEN addr ELSE addr + (n - r)

\* ---------------------------------------------------------- FreeListArray

\* new FreeListArray(slotSize, parent)
FreeListArray_new(slotSize) ==
  [slotSize |-> slotSize,
   startIndex |-> 0,
   endIndex |-> 0,
   entries |-> [k \in 0..(maxSlotEntries - 1) |-> 0],
   allocatedEntries |-> 0]

\* new FreeList(size, alignment)
FreeList_new(size, alignment) ==
  [freeStart |-> 0,
   freeEnd |-> size,
   alignment |-> alignment,
   slots |-> << >>,
   slotSizes |-> << >>]

\* FreeList.allocIndex with the shift forgotten (allocSize = slotSize)
FreeList_allocIndex_noShift(f, slotSize) ==
  LET newFreeStart == _align(f.freeStart + slotSize, f.alignment)
  IN IF newFreeStart <= f.freeEnd
       THEN [ok |-> TRUE, err |-> "", index |-> f.freeStart,
             fl |-> [f EXCEPT !.freeStart = newFreeStart]]
       ELSE [ok |-> FALSE, err |-> "out of memory to allocate to slot",
             index |-> -1, fl |-> f]

\* FreeList.allocIndex with newFreeStart < freeEnd for newFreeStart <= freeEnd
FreeList_allocIndex_strict(f, slotSize) ==
  LET newFreeStart == _align(f.freeStart + 2^slotSize, f.alignment)
  IN IF newFreeStart < f.freeEnd
       THEN [ok |-> TRUE, err |-> "", index |-> f.freeStart,
             fl |-> [f EXCEPT !.freeStart = newFreeStart]]
       ELSE [ok |-> FALSE, err |-> "out of memory to allocate to slot",
             index |-> -1, fl |-> f]

\* FreeList.allocIndex(slotSize): the bump allocation
FreeList_allocIndex(f, slotSize) ==
  LET allocSize == 2^slotSize
      newFreeStart == _align(f.freeStart + allocSize, f.alignment)
  IN IF newFreeStart <= f.freeEnd
       THEN [ok |-> TRUE, err |-> "", index |-> f.freeStart,
             fl |-> [f EXCEPT !.freeStart = newFreeStart]]
       ELSE [ok |-> FALSE, err |-> "out of memory to allocate to slot",
             index |-> -1, fl |-> f]

\* FreeListArray.alloc() of the array of class c of FreeList f (its parent)
FreeListArray_alloc(f, c) ==
  LET a == f.slots[c] IN
  IF a.allocatedEntries < maxSlotEntries
    THEN LET bump == a.startIndex = a.endIndex
             r == FreeList_allocIndex(f, a.slotSize)
         IN IF bump /\ ~r.ok
              THEN [ok |-> FALSE, err |-> r.err, index |-> -1, fl |-> f]
              ELSE
                LET f1 == IF bump THEN r.fl ELSE f
                    a1 == IF bump
                            THEN [a EXCEPT !.entries[a.endIndex] = r.index,
                                           !.endIndex = (a.endIndex + 1) % maxSlotEntries]
                            ELSE a
                    index == a1.entries[a1.startIndex]
                    a2 == [a1 EXCEPT !.startIndex = (a1.startIndex + 1) % maxSlotEntries,
                                     !.allocatedEntries = a1.allocatedEntries + 1]
                IN [ok |-> TRUE, err |-> "", index |-> index,
                    fl |-> [f1 EXCEPT !.slots[c] = a2]]
    ELSE [ok |-> FALSE, err |-> "out of slots to allocate", index |-> -1, fl |-> f]

\* FreeListArray.free giving a range that ends at the bump cursor back to it
FreeListArray_free_toCursor(f, c, index) ==
  LET a == f.slots[c] IN
  IF index + 2^c = f.freeStart
    THEN [f EXCEPT !.freeStart = index,
                   !.slots[c] = [a EXCEPT !.allocatedEntries = a.allocatedEntries - 1]]
    ELSE [f EXCEPT !.slots[c] =
            [a EXCEPT !.entries[a.endIndex] = index,
                      !.endIndex = (a.endIndex + 1) % maxSlotEntries,
                      !.allocatedEntries = a.allocatedEntries - 1]]

\* FreeListArray.free(index) of the array of class c of FreeList f
FreeListArray_free(f, c, index) ==
  LET a == f.slots[c] IN
  [f EXCEPT !.slots[c] =
     [a EXCEPT !.entries[a.endIndex] = index,
               !.endIndex = (a.endIndex + 1) % maxSlotEntries,
               !.allocatedEntries = a.allocatedEntries - 1]]

\* ---------------------------------------------------------------- FreeList

\* FreeList.alloc(size)
FreeList_alloc(f, size) ==
  LET slotSize == _getClosestPowerOf2(size)
      f0 == IF slotSize \in DOMAIN f.slots
              THEN f
              ELSE [f EXCEPT !.slots = f.slots @@ (slotSize :> FreeListArray_new(slotSize))]
      r == FreeListArray_alloc(f0, slotSize)
  IN IF r.ok
       THEN [r EXCEPT !.fl.slotSizes =
               (r.index :> slotSize) @@ r.fl.slotSizes]
       ELSE r

\* FreeList.free without this.slotSizes.delete(index)
FreeList_free_keepsMap(f, index) ==
  IF index \in DOMAIN f.slotSizes
    THEN [ok |-> TRUE, err |-> "",
          fl |-> FreeListArray_free(f, f.slotSizes[index], index)]
    ELSE [ok |-> FALSE, err |-> "invalid free index", fl |-> f]

\* FreeList.free(index)
FreeList_free(f, index) ==
  IF index \in DOMAIN f.slotSizes
    THEN LET slotSize == f.slotSizes[index] IN
         IF slotSize \in DOMAIN f.slots
           THEN LET f1 == FreeListArray_free(f, slotSize, index) IN
                [ok |-> TRUE, err |-> "",
                 fl |-> [f1 EXCEPT !.slotSizes =
                           [k \in DOMAIN f.slotSizes \ {index} |-> f.slotSizes[k]]]]
           ELSE [ok |-> FALSE, err |-> "invalid free slot", fl |-> f]
    ELSE [ok |-> FALSE, err |-> "invalid free index", fl |-> f]

\* ------------------------------------------------------------ typed arrays

\* arr[i], undefined outside the array
ArrGet(arr, i) == IF i \in DOMAIN arr THEN arr[i] ELSE Undefined

\* arr[i] = v on an Int32Array: ignored outside the array, undefined stored as 0
ArrSet(arr, i, v) ==
  IF i \in DOMAIN arr THEN [arr EXCEPT ![i] = IF v = Undefined THEN 0 ELSE v] ELSE arr

\* Int32Array.prototype.indexOf
IndexOf(arr, v) ==
  IF \E i \in DOMAIN arr : arr[i] = v
    THEN CHOOSE i \in DOMAIN arr : arr[i] = v /\ \A j \in DOMAIN arr : arr[j] = v => i <= j
    ELSE -1

\* ------------------------------------------------------- bounding volumes
\* The floats of a bounding volume are kept as one value: the volume the
\* caller passed ("near", "far"), the all-zero volume a new Float32Array holds
\* ("origin"), or the volume of NaNs that storing undefined gives ("NaN").
\* The frustum tests of three.js are a fixed table over two cameras; NaN
\* passes every test since each comparison of the tests is then false.
Volumes == {"near", "far"}

Cameras == {"cam1", "cam2"}

BoundingTypes == {"null", "sphere", "box"}

\* frustum.intersectsSphere / frustum.intersectsBox for the frustum of cam
Intersects(cam, v) ==
  \/ v = "NaN"
  \/ <<cam, v>> \in {<<"cam1", "origin">>, <<"cam1", "near">>, <<"cam2", "near">>}

\* volume i of a Float32Array of bounding data, NaN outside the array
VolGet(arr, i) == IF i \in DOMAIN arr THEN arr[i] ELSE "NaN"

\* the writes of one volume's floats at volume i, ignored outside the array
VolSet(arr, i, v) == IF i \in DOMAIN arr THEN [arr EXCEPT ![i] = v] ELSE arr

\* _getBoundingSize(boundingType) > 0
HasBounding(boundingType) == boundingType \in {"sphere", "box"}

\* -------------------------------------------------------- GeometryAllocator

\* new GeometryAllocator(attributeSpecs, {bufferSize, boundingType})
GeometryAllocator_new(bufferSize, boundingType) ==
  [boundingType |-> boundingType,
   positionFreeList |-> FreeList_new(bufferSize * 3, 3),
   indexFreeList |-> FreeList_new(bufferSize, 1),
   drawStarts |-> [i \in 0..(maxNumDraws - 1) |-> 0],
   drawCounts |-> [i \in 0..(maxNumDraws - 1) |-> 0],
   boundingData |-> IF HasBounding(boundingType)
                      THEN [i \in 0..(maxNumDraws - 1) |-> "origin"]
                      ELSE << >>,
   numDraws |-> 0]

NoHandle == [positionFreeListEntry |-> -1, indexFreeListEntry |-> -1]

\* GeometryPositionIndexBinding.getAttributeOffset(name) for an attribute of
\* the given itemSize: positionFreeListEntry / 3 * itemSize, as a whole
\* number plus a number of thirds
GeometryPositionIndexBinding_getAttributeOffset(geometryBinding, itemSize) ==
  LET e == geometryBinding.positionFreeListEntry IN
  [whole |-> (e \div 3) * itemSize + ((e % 3) * itemSize) \div 3,
   thirds |-> ((e % 3) * itemSize) % 3]

\* the item sizes of the attributes of a geometry
AttributeItemSizes == {1, 2, 3, 4}

\* GeometryAllocator.alloc(numPositions, numIndices, boundingObject)
GeometryAllocator_alloc(g, numPositions, numIndices, boundingObject) ==
  LET p == FreeList_alloc(g.positionFreeList, numPositions)
      g1 == [g EXCEPT !.positionFreeList = p.fl]
      x == FreeList_alloc(g.indexFreeList, numIndices)
      g2 == [g1 EXCEPT !.indexFreeList = x.fl]
      slot == x.index
  IN IF ~p.ok THEN [ok |-> FALSE, err |-> p.err, ga |-> g1, handle |-> NoHandle]
     ELSE IF ~x.ok THEN [ok |-> FALSE, err |-> x.err, ga |-> g2, handle |-> NoHandle]
     ELSE [ok |-> TRUE, err |-> "",
           ga |-> [g2 EXCEPT
                     !.drawStarts = ArrSet(@, g.numDraws, slot * BYTES_PER_ELEMENT),
                     !.drawCounts = ArrSet(@, g.numDraws, numIndices),
                     !.boundingData = IF HasBounding(g.boundingType)
                                        THEN VolSet(@, g.numDraws, boundingObject)
                                        ELSE @,
                     !.numDraws = g.numDraws + 1],
           handle |-> [positionFreeListEntry |-> p.index,
                       indexFreeListEntry |-> x.index]]

\* GeometryAllocator.free(geometryBinding)
GeometryAllocator_free(g, geometryBinding) ==
  LET slot == geometryBinding.indexFreeListEntry
      expectedStartValue == slot * BYTES_PER_ELEMENT
      freeIndex == IndexOf(g.drawStarts, expectedStartValue)
      lastIndex == g.numDraws - 1
      g1 == IF g.numDraws >= 2
              THEN [g EXCEPT
                      !.drawStarts = ArrSet(@, freeIndex, ArrGet(g.drawStarts, lastIndex)),
                      !.drawCounts = ArrSet(@, freeIndex, ArrGet(g.drawCounts, lastIndex)),
                      !.boundingData = IF HasBounding(g.boundingType)
                                         THEN VolSet(@, freeIndex, VolGet(g.boundingData, lastIndex))
                                         ELSE @]
              ELSE g
      g2 == [g1 EXCEPT !.numDraws = g.numDraws - 1]
      p == FreeList_free(g2.positionFreeList, geometryBinding.positionFreeListEntry)
      g3 == [g2 EXCEPT !.positionFreeList = p.fl]
      x == FreeList_free(g3.indexFreeList, geometryBinding.indexFreeListEntry)
      g4 == [g3 EXCEPT !.indexFreeList = x.fl]
  IN IF ~p.ok THEN [ok |-> FALSE, err |-> p.err, ga |-> g3]
     ELSE IF ~x.ok THEN [ok |-> FALSE, err |-> x.err, ga |-> g4]
     ELSE [ok |-> TRUE, err |-> "", ga |-> g4]

\* this.testBoundingFn(i, frustum) of GeometryAllocator, as the truth value the
\* caller tests, or "throw" for the ReferenceError of the unresolved `camera`:
\* the sphere test returns the distance from the centre to camera.position
\* when the sphere intersects, which is falsy when that distance is 0 (the
\* camera at the centre, gcam = v) or NaN
GeometryAllocator_testBoundingFn(g, gcam, i, cam) ==
  LET v == VolGet(g.boundingData, i) IN
  IF g.boundingType = "sphere"
    THEN IF Intersects(cam, v)
           THEN IF gcam = "undefined" THEN "throw"
                ELSE IF gcam = v \/ v = "NaN" THEN "false" ELSE "true"
           ELSE "false"
    ELSE IF Intersects(cam, v) THEN "true" ELSE "false"

\* the loop of GeometryAllocator.getDrawSpec from record i on, the output
\* arrays holding starts and counts so far
RECURSIVE GeometryAllocator_getDrawSpecFrom(_, _, _, _, _, _)
GeometryAllocator_getDrawSpecFrom(g, gcam, cam, i, starts, counts) ==
  IF i >= g.numDraws
    THEN [ok |-> TRUE, err |-> "", drawStarts |-> starts, drawCounts |-> counts]
    ELSE LET t == IF HasBounding(g.boundingType)
                    THEN GeometryAllocator_testBoundingFn(g, gcam, i, cam)
                    ELSE "true"
         IN IF t = "throw"
              THEN [ok |-> FALSE, err |-> "ReferenceError: camera is not defined",
                    drawStarts |-> starts, drawCounts |-> counts]
              ELSE IF t = "true"
                THEN GeometryAllocator_getDrawSpecFrom(g, gcam, cam, i + 1,
                       Append(starts, ArrGet(g.drawStarts, i)),
                       Append(counts, ArrGet(g.drawCounts, i)))
                ELSE GeometryAllocator_getDrawSpecFrom(g, gcam, cam, i + 1, starts, counts)

\* GeometryAllocator.getDrawSpec(camera, drawStarts, drawCounts)
GeometryAllocator_getDrawSpec(g, gcam, cam) ==
  GeometryAllocator_getDrawSpecFrom(g, gcam, cam, 0, << >>, << >>)


\* ------------------------------------------- the stand-alone FreeList

\* ------------------------------------------------ InstancedGeometryAllocator
\* A template geometry is kept as its index count.

\* geometryRegistry[i].index.start: the index counts of the geometries before i
RECURSIVE IndexStart(_, _)
IndexStart(geometries, i) ==
  IF i = 0 THEN 0 ELSE IndexStart(geometries, i - 1) + geometries[i]

\* new InstancedGeometryAllocator(geometries, instanceTextureSpecs,
\*   {maxInstancesPerDrawCall, maxDrawCallsPerGeometry, boundingType,
\*    instanceBoundingType}), with one instanced attribute texture. The texture
\* and instanceBoundingData are kept by item: entry i * maxInstancesPerDrawCall
\* + j is the payload row, and the bounding volume, of instance j of slot i;
\* the rows of the texture past the last item are never addressed.
InstancedGeometryAllocator_new(geometries, maxInstancesPerDrawCall, maxDrawCallsPerGeometry, boundingType, instanceBoundingType) ==
  LET n == Len(geometries) * maxDrawCallsPerGeometry IN
  [maxInstancesPerDrawCall |-> maxInstancesPerDrawCall,
   maxDrawCallsPerGeometry |-> maxDrawCallsPerGeometry,
   boundingType |-> boundingType,
   drawStarts |-> [i \in 0..(n - 1) |-> 0],
   drawCounts |-> [i \in 0..(n - 1) |-> 0],
   drawInstanceCounts |-> [i \in 0..(n - 1) |-> 0],
   boundingData |-> IF HasBounding(boundingType)
                      THEN [i \in 0..(n - 1) |-> "origin"]
                      ELSE << >>,
   instanceBoundingType |-> instanceBoundingType,
   instanceBoundingData |-> IF HasBounding(instanceBoundingType)
                              THEN [k \in 0..(n * maxInstancesPerDrawCall - 1) |-> "origin"]
                              ELSE << >>,
   texture |-> [k \in 0..(n * maxInstancesPerDrawCall - 1) |-> "zero"],
   geometryRegistry |-> [i \in 0..(Len(geometries) - 1) |->
                           [start |-> IndexStart(geometries, i),
                            count |-> geometries[i + 1]]],
   freeList |-> FreeList_new(n, 1)]

NoDrawCall == [geometryIndex |-> -1, freeListEntry |-> -1]

\* InstancedGeometryAllocator.allocDrawCall(geometryIndex, boundingObject);
\* an unknown geometryIndex is a TypeError at the destructuring of
\* geometrySpec, after the slot was taken
InstancedGeometryAllocator_allocDrawCall(a, geometryIndex, boundingObject) ==
  LET r == FreeList_alloc(a.freeList, 1)
      a1 == [a EXCEPT !.freeList = r.fl]
      freeListEntry == r.index
  IN IF ~r.ok THEN [ok |-> FALSE, err |-> r.err, ia |-> a1, drawCall |-> NoDrawCall]
     ELSE IF geometryIndex \notin DOMAIN a.geometryRegistry
       THEN [ok |-> FALSE, err |-> "TypeError", ia |-> a1, drawCall |-> NoDrawCall]
     ELSE [ok |-> TRUE, err |-> "",
           ia |-> [a1 EXCEPT
                     !.drawStarts = ArrSet(@, freeListEntry,
                        a.geometryRegistry[geometryIndex].start * BYTES_PER_ELEMENT),
                     !.drawCounts = ArrSet(@, freeListEntry,
                        a.geometryRegistry[geometryIndex].count),
                     !.drawInstanceCounts = ArrSet(@, freeListEntry, 0),
                     !.boundingData = IF HasBounding(a.boundingType)
                                        THEN VolSet(@, freeListEntry, boundingObject)
                                        ELSE @],
           drawCall |-> [geometryIndex |-> geometryIndex,
                         freeListEntry |-> freeListEntry]]

\* the slot's record zeroed, as freeDrawCall does before it frees the slot
ZeroDrawCall(a, freeListEntry) ==
  [a EXCEPT !.drawStarts = ArrSet(@, freeListEntry, 0),
            !.drawCounts = ArrSet(@, freeListEntry, 0),
            !.drawInstanceCounts = ArrSet(@, freeListEntry, 0),
            !.boundingData = IF HasBounding(a.boundingType)
                               THEN VolSet(@, freeListEntry, "origin")
                               ELSE @]

\* freeDrawCall compacting the records as GeometryAllocator.free does: the
\* record of the last slot handed out is moved into the freed slot
InstancedGeometryAllocator_freeDrawCall_compact(a, drawCall) ==
  LET freeListEntry == drawCall.freeListEntry
      last == a.freeList.freeStart - 1
      a1 == [a EXCEPT
               !.drawStarts = ArrSet(@, freeListEntry, ArrGet(a.drawStarts, last)),
               !.drawCounts = ArrSet(@, freeListEntry, ArrGet(a.drawCounts, last)),
               !.drawInstanceCounts =
                  ArrSet(@, freeListEntry, ArrGet(a.drawInstanceCounts, last)),
               !.boundingData = IF HasBounding(a.boundingType)
                                  THEN VolSet(@, freeListEntry, VolGet(a.boundingData, last))
                                  ELSE @]
      a2 == ZeroDrawCall(a1, last)
      r == FreeList_free(a.freeList, freeListEntry)
  IN [ok |-> r.ok, err |-> r.err, ia |-> [a2 EXCEPT !.freeList = r.fl]]

\* InstancedGeometryAllocator.freeDrawCall(drawCall): the record is zeroed
\* before freeList.free can throw
InstancedGeometryAllocator_freeDrawCall(a, drawCall) ==
  LET freeListEntry == drawCall.freeListEntry
      a1 == ZeroDrawCall(a, freeListEntry)
      r == FreeList_free(a.freeList, freeListEntry)
  IN [ok |-> r.ok, err |-> r.err, ia |-> [a1 EXCEPT !.freeList = r.fl]]

\* InstancedGeometryAllocator.getInstanceCount(drawCall)
InstancedGeometryAllocator_getInstanceCount(a, drawCall) ==
  ArrGet(a.drawInstanceCounts, drawCall.freeListEntry)

\* InstancedGeometryAllocator.setInstanceCount(drawCall, instanceCount)
InstancedGeometryAllocator_setInstanceCount(a, drawCall, instanceCount) ==
  [a EXCEPT !.drawInstanceCounts = ArrSet(@, drawCall.freeListEntry, instanceCount)]

\* InstancedGeometryAllocator.incrementInstanceCount(drawCall)
InstancedGeometryAllocator_incrementInstanceCount(a, drawCall) ==
  [a EXCEPT !.drawInstanceCounts =
     ArrSet(@, drawCall.freeListEntry, ArrGet(a.drawInstanceCounts, drawCall.freeListEntry) + 1)]

\* InstancedGeometryAllocator.decrementInstanceCount(drawCall)
InstancedGeometryAllocator_decrementInstanceCount(a, drawCall) ==
  [a EXCEPT !.drawInstanceCounts =
     ArrSet(@, drawCall.freeListEntry, ArrGet(a.drawInstanceCounts, drawCall.freeListEntry) - 1)]

\* DrawCallBinding.getTextureOffset(name) in items: the first row of the slot
DrawCallBinding_getTextureOffset(a, drawCall) ==
  drawCall.freeListEntry * a.maxInstancesPerDrawCall

\* the caller's write of instance j of a draw call: its payload into the
\* texture at getTextureOffset + j and its volume into instanceBoundingData
WriteInstance(a, drawCall, j, payload, volume) ==
  LET k == DrawCallBinding_getTextureOffset(a, drawCall) + j IN
  [a EXCEPT !.texture = IF k \in DOMAIN @ THEN [@ EXCEPT ![k] = payload] ELSE @,
            !.instanceBoundingData = IF HasBounding(a.instanceBoundingType)
                                       THEN VolSet(@, k, volume) ELSE @]

\* _swapTextureAttributes(texture, i, j, maxInstancesPerDrawCall): the row of
\* instance maxInstancesPerDrawCall - 1 of slot i is copied over row j
_swapTextureAttributes(texture, i, j, maxInstancesPerDrawCall) ==
  LET startOffset == i * maxInstancesPerDrawCall
      dst == startOffset + j
      src == startOffset + maxInstancesPerDrawCall - 1
  IN IF dst \in DOMAIN texture /\ src \in DOMAIN texture
       THEN [texture EXCEPT ![dst] = texture[src]]
       ELSE texture

\* the copy _swapBoundingDataSphere and _swapBoundingDataBox would make were
\* startOffset bound to i * maxInstancesPerDrawCall
_swapBoundingData_bound(instanceBoundingData, i, j, maxInstancesPerDrawCall) ==
  LET startOffset == i * maxInstancesPerDrawCall
      dst == startOffset + j
      src == startOffset + maxInstancesPerDrawCall - 1
  IN [ok |-> TRUE, err |-> "",
      data |-> VolSet(instanceBoundingData, dst, VolGet(instanceBoundingData, src))]

\* _swapBoundingDataSphere and _swapBoundingDataBox: their first statement
\* reads startOffset, which is neither a parameter nor a variable in scope, a
\* ReferenceError before anything is copied
_swapBoundingData(instanceBoundingData, i, j, maxInstancesPerDrawCall) ==
  [ok |-> FALSE, err |-> "ReferenceError", data |-> instanceBoundingData]

\* this.testBoundingFn(i, frustum) of the InstancedGeometryAllocator
InstancedGeometryAllocator_testBoundingFn(a, cam, i) ==
  Intersects(cam, VolGet(a.boundingData, i))

\* this.testInstanceBoundingFn(j, frustum): chosen by boundingType; the
\* sphere test reads instanceBoundingData, the box test this.boundingData
InstancedGeometryAllocator_testInstanceBoundingFn(a, cam, j) ==
  IF a.boundingType = "sphere"
    THEN Intersects(cam, VolGet(a.instanceBoundingData, j))
    ELSE Intersects(cam, VolGet(a.boundingData, j))

\* the loop over the instances j..maxDrawableInstances-1 of slot i in
\* getDrawSpec; testInstanceBoundingFn and swapBoundingDataFn are both set
\* exactly when boundingType is sphere or box
RECURSIVE InstancedGeometryAllocator_arrangeInstances(_, _, _, _, _, _)
InstancedGeometryAllocator_arrangeInstances(a, cam, i, j, maxDrawableInstances, instancesToDraw) ==
  LET startOffset == i * a.maxInstancesPerDrawCall IN
  IF j >= maxDrawableInstances
    THEN [ok |-> TRUE, err |-> "", ia |-> a, instancesToDraw |-> instancesToDraw]
  ELSE IF ~HasBounding(a.boundingType)
          \/ InstancedGeometryAllocator_testInstanceBoundingFn(a, cam, startOffset + j)
    THEN InstancedGeometryAllocator_arrangeInstances(a, cam, i, j + 1, maxDrawableInstances,
                                                     instancesToDraw + 1)
  ELSE LET a1 == [a EXCEPT !.texture =
                    _swapTextureAttributes(@, i, j, a.maxInstancesPerDrawCall)]
           b == _swapBoundingData(a1.instanceBoundingData, i, j, a.maxInstancesPerDrawCall)
           a2 == [a1 EXCEPT !.instanceBoundingData = b.data]
       IN IF ~b.ok
            THEN [ok |-> FALSE, err |-> b.err, ia |-> a2, instancesToDraw |-> instancesToDraw]
            ELSE InstancedGeometryAllocator_arrangeInstances(a2, cam, i, j + 1,
                                                             maxDrawableInstances, instancesToDraw)

\* the loop over the slots i.. of getDrawSpec; an entry of an output array
\* that was not written is Undefined
RECURSIVE InstancedGeometryAllocator_getDrawSpecFrom(_, _, _, _, _, _)
InstancedGeometryAllocator_getDrawSpecFrom(a, cam, i, starts, counts, instanceCounts) ==
  IF i \notin DOMAIN a.drawStarts
    THEN [ok |-> TRUE, err |-> "", ia |-> a, multiDrawStarts |-> starts,
          multiDrawCounts |-> counts, multiDrawInstanceCounts |-> instanceCounts]
  ELSE IF ~HasBounding(a.boundingType) \/ InstancedGeometryAllocator_testBoundingFn(a, cam, i)
    THEN LET starts1 == [starts EXCEPT ![i] = a.drawStarts[i]]
             counts1 == [counts EXCEPT ![i] = a.drawCounts[i]]
         IN IF a.instanceBoundingType # "null"
              THEN LET r == InstancedGeometryAllocator_arrangeInstances(
                              a, cam, i, 0, a.drawInstanceCounts[i], 0)
                   IN IF ~r.ok
                        THEN [ok |-> FALSE, err |-> r.err, ia |-> r.ia,
                              multiDrawStarts |-> starts1, multiDrawCounts |-> counts1,
                              multiDrawInstanceCounts |-> instanceCounts]
                        ELSE InstancedGeometryAllocator_getDrawSpecFrom(
                               r.ia, cam, i + 1, starts1, counts1,
                               [instanceCounts EXCEPT ![i] = r.instancesToDraw])
              ELSE InstancedGeometryAllocator_getDrawSpecFrom(
                     a, cam, i + 1, starts1, counts1,
                     [instanceCounts EXCEPT ![i] = a.drawInstanceCounts[i]])
  ELSE InstancedGeometryAllocator_getDrawSpecFrom(
         a, cam, i + 1, [starts EXCEPT ![i] = 0], [counts EXCEPT ![i] = 0],
         [instanceCounts EXCEPT ![i] = 0])

\* InstancedGeometryAllocator.getDrawSpec(camera, multiDrawStarts,
\*   multiDrawCounts, multiDrawInstanceCounts), called with empty arrays
InstancedGeometryAllocator_getDrawSpec(a, cam) ==
  LET empty == [i \in DOMAIN a.drawStarts |-> Undefined] IN
  InstancedGeometryAllocator_getDrawSpecFrom(a, cam, 0, empty, empty, empty)

\* ------------------------------------------- DrawCallBinding.updateTexture

\* the widths of the textures: powers of two from 16 (the constructor's clamp)
TextureWidths == {16, 32}

\* texture.itemSize, the floats of one item
ItemSizes == {1, 3, 4, 16}

\* DrawCallBinding.updateTexture(name, dataIndex, dataLength) on a texture of
\* the given width and itemSize: the sequence of the sub-images passed to
\* renderer.copyTextureToTexture, each with its position (x, y), its size
\* (w, h) and the start of its source in texture.image.data
DrawCallBinding_updateTexture(width, itemSize, dataIndex, dataLength) ==
  LET pixelIndex == dataIndex \div itemSize
      itemCount == dataLength \div itemSize
      minX == pixelIndex % width
      minY == pixelIndex \div width
      maxY == (pixelIndex + itemCount) \div width
      top == minX # 0
      topW == IF width - minX <= itemCount THEN width - minX ELSE itemCount
      topCopy == IF top
                   THEN <<[x |-> minX, y |-> minY, w |-> topW, h |-> 1,
                           start |-> (minX + minY * width) * itemSize]>>
                   ELSE << >>
      minX1 == IF top THEN 0 ELSE minX
      minY1 == IF top THEN minY + 1 ELSE minY
      itemCount1 == IF top THEN itemCount - topW ELSE itemCount
      middle == minY1 < maxY
      middleCopy == IF middle
                      THEN <<[x |-> 0, y |-> minY1, w |-> width, h |-> maxY - minY1,
                              start |-> (minY1 * width) * itemSize]>>
                      ELSE << >>
      minX2 == IF middle THEN 0 ELSE minX1
      minY2 == IF middle THEN maxY ELSE minY1
      itemCount2 == IF middle THEN itemCount1 - width * (maxY - minY1) ELSE itemCount1
      bottomCopy == IF itemCount2 > 0
                      THEN <<[x |-> minX2, y |-> minY2, w |-> itemCount2, h |-> 1,
                              start |-> (minX2 + minY2 * width) * itemSize]>>
                      ELSE << >>
  IN topCopy \o middleCopy \o bottomCopy

\* the smallest power of two p, from p upwards, with p * p >= n: for n >= 1
\* Math.pow(2, Math.ceil(Math.log2(Math.sqrt(n))))
RECURSIVE PowerOf2AtLeastSqrt(_, _)
PowerOf2AtLeastSqrt(n, p) == IF p * p >= n THEN p ELSE PowerOf2AtLeastSqrt(n, 2 * p)

\* the bounds the constructor clamps the side of a texture to
minTextureSizePx == 16
maxTextureSizePx == 2048

\* the items, in pixels of four components, an attribute's texture is to hold
\* (itemSize is at most 4 or a multiple of 4)
InstancedGeometryAllocator_neededItems4(numGeometries, maxDrawCallsPerGeometry, maxInstancesPerDrawCall, maxSlotsPerGeometry, itemSize, instanced) ==
  LET itemCount == IF instanced
                     THEN numGeometries * maxDrawCallsPerGeometry * maxInstancesPerDrawCall
                     ELSE maxSlotsPerGeometry * numGeometries
  IN IF itemSize > 4 THEN itemCount * (itemSize \div 4) ELSE itemCount

\* the side of the texture the constructor creates for neededItems4 pixels;
\* log2(0) is -Infinity and 2 ^ -Infinity is 0
InstancedGeometryAllocator_textureSizePx(neededItems4) ==
  LET side == IF neededItems4 = 0 THEN 0 ELSE PowerOf2AtLeastSqrt(neededItems4, 1)
      atLeast == IF side > minTextureSizePx THEN side ELSE minTextureSizePx
  IN IF atLeast < maxTextureSizePx THEN atLeast ELSE maxTextureSizePx

\* no texture is being sized
TXNoCall ==
  [op |-> "new", numGeometries |-> 0, maxDrawCallsPerGeometry |-> 0,
   maxInstancesPerDrawCall |-> 0, maxSlotsPerGeometry |-> 0, itemSize |-> 0,
   instanced |-> TRUE, neededItems4 |-> 0, textureSizePx |-> 0]

\* no texture is sized while another object runs
TXIdle == tx = TXNoCall

UTNoCall == [op |-> "new", width |-> 0, itemSize |-> 0, p |-> 0, n |-> 0, copies |-> << >>]

\* no updateTexture call is made while another object runs
UTIdle == ut = UTNoCall

\* the template geometries the allocator is built from
Geometries == <<3, 6>>

\* the outcome of a call: the handle it acted on or returned, for an
\* allocDrawCall the arguments it was given, for a getDrawSpec the camera, the
\* output arrays, whether the call changed a row of the instance texture
\* (moved) and whether it directly follows a getDrawSpec with the same camera
\* that did (afterMoved)
IANoRet ==
  [op |-> "new", ok |-> TRUE, err |-> "", drawCall |-> NoDrawCall,
   geometryIndex |-> -1, boundingObject |-> "",
   cam |-> "", multiDrawStarts |-> << >>, multiDrawCounts |-> << >>,
   multiDrawInstanceCounts |-> << >>, moved |-> FALSE, afterMoved |-> FALSE]

\* the InstancedGeometryAllocator left alone while another object runs
IAIdle ==
  /\ ia = InstancedGeometryAllocator_new(<<1>>, 1, 1, "null", "null")
  /\ iaRet = IANoRet
  /\ iaLive = {}
  /\ iaFreed = {}
  /\ iaCalls = 0

\* the GeometryAllocator left alone while the FreeList runs
GAIdle ==
  /\ ga = GeometryAllocator_new(1, "null")
  /\ globalCamera = "undefined"
  /\ gaRet = [op |-> "new"]
  /\ gaLive = {}
  /\ gaFreed = {}
  /\ calls = 0

SlotClasses == 0.._getClosestPowerOf2(MaxSize)

InitFL ==
  /\ \/ \E n \in 1..Capacity : fl = FreeList_new(n, 1)
     \/ \E n \in 1..PosCapacity : fl = FreeList_new(3 * n, 3)
  /\ ret = [op |-> "new", size |-> 0, cls |-> 0, was |-> "", ok |-> TRUE, err |-> "",
           index |-> -1]
  /\ live = {}
  /\ freed = {}
  /\ run = 0
  /\ pending = << >>
  /\ GAIdle
  /\ IAIdle
  /\ UTIdle
  /\ TXIdle

\* a call fl.alloc(size); ret.index is the returned index
Alloc ==
  \E size \in 1..MaxSize :
    LET r == FreeList_alloc(fl, size)
        c == _getClosestPowerOf2(size)
    IN /\ fl' = r.fl
       /\ ret' = [op |-> "alloc", size |-> size, cls |-> c, was |-> "",
                  ok |-> r.ok, err |-> r.err, index |-> r.index]
       /\ live' = IF r.ok THEN live \cup {<<r.index, c>>} ELSE live
       /\ freed' = IF r.ok THEN freed \ {<<r.index, c>>} ELSE freed
       /\ run' = IF size = 1 /\ run >= 0 /\ r.ok THEN run + 1 ELSE -1
       /\ pending' = IF r.ok
                       THEN SelectSeq(pending, LAMBDA e : e[1] # r.index)
                       ELSE pending
       /\ UNCHANGED <<gaVars, iaVars, utVars, txVars>>

\* a call fl.free(index), of any index of the address range; ret.was tells
\* whether index was the start of an allocation the caller held ("live"), of
\* one it had freed ("freed") or of none ("never"); ret.index is the index
\* released
Free ==
  \E index \in 0..(fl.freeEnd - 1) :
    LET r == FreeList_free(fl, index)
        c == IF index \in DOMAIN fl.slotSizes THEN fl.slotSizes[index] ELSE 0
    IN /\ fl' = r.fl
       /\ ret' = [op |-> "free", size |-> 0, cls |-> c,
                  was |-> IF \E l \in live : l[1] = index THEN "live"
                          ELSE IF \E l \in freed : l[1] = index THEN "freed"
                          ELSE "never",
                  ok |-> r.ok, err |-> r.err,
                  index |-> IF r.ok THEN index ELSE -1]
       /\ live' = IF r.ok THEN live \ {<<index, c>>} ELSE live
       /\ freed' = IF r.ok THEN freed \cup {<<index, c>>} ELSE freed
       /\ run' = -1
       /\ pending' = IF r.ok THEN Append(pending, <<index, c>>) ELSE pending
       /\ UNCHANGED <<gaVars, iaVars, utVars, txVars>>

NextFL == Alloc \/ Free

vars == <<flVars, gaVars, iaVars, utVars, txVars>>

SpecFL == InitFL /\ [][NextFL]_vars

\* ------------------------------------------------ the GeometryAllocator

GANoRet ==
  [op |-> "new", ok |-> TRUE, err |-> "", cam |-> "",
   drawStarts |-> << >>, drawCounts |-> << >>]

\* the FreeList left alone while the GeometryAllocator runs
FLIdle ==
  /\ fl = FreeList_new(1, 1)
  /\ ret = [op |-> "new", size |-> 0, cls |-> 0, was |-> "", ok |-> TRUE, err |-> "",
           index |-> -1]
  /\ live = {}
  /\ freed = {}
  /\ run = 0
  /\ pending = << >>

\* `camera` in testBoundingFn is no parameter and no variable of the module:
\* it resolves to a global, if the page defines one (here: a camera at the
\* centre of the volume "near"), and is a ReferenceError otherwise
InitGA ==
  /\ \E boundingType \in BoundingTypes :
       /\ ga = GeometryAllocator_new(BufferSize, boundingType)
       /\ globalCamera \in IF boundingType = "sphere"
                             THEN {"undefined", "near"} ELSE {"undefined"}
  /\ gaRet = GANoRet
  /\ gaLive = {}
  /\ gaFreed = {}
  /\ calls = 0
  /\ FLIdle
  /\ IAIdle
  /\ UTIdle
  /\ TXIdle

\* a call ga.alloc(numPositions, numIndices, boundingObject)
GA_Alloc ==
  \E numPositions \in 1..MaxPositions, numIndices \in 1..MaxIndices, boundingObject \in Volumes :
    LET r == GeometryAllocator_alloc(ga, numPositions, numIndices, boundingObject)
    IN /\ calls < MaxCalls
       /\ calls' = calls + 1
       /\ ga' = r.ga
       /\ gaRet' = [GANoRet EXCEPT !.op = "alloc", !.ok = r.ok, !.err = r.err]
       /\ gaLive' = IF r.ok
                      THEN gaLive \cup {[handle |-> r.handle, numIndices |-> numIndices,
                                         bounding |-> IF HasBounding(ga.boundingType)
                                                        THEN boundingObject ELSE "none"]}
                      ELSE gaLive
       /\ UNCHANGED <<globalCamera, gaFreed, flVars, iaVars, utVars, txVars>>

\* a call ga.free(h) with a handle the caller holds
GA_Free ==
  \E h \in gaLive :
    LET r == GeometryAllocator_free(ga, h.handle)
    IN /\ calls < MaxCalls
       /\ calls' = calls + 1
       /\ ga' = r.ga
       /\ gaRet' = [GANoRet EXCEPT !.op = "free", !.ok = r.ok, !.err = r.err]
       /\ gaLive' = gaLive \ {h}
       /\ UNCHANGED <<globalCamera, gaFreed, flVars, iaVars, utVars, txVars>>

\* the same call, the caller keeping the freed handle (one at a time)
GA_FreeKeep ==
  \E h \in gaLive :
    LET r == GeometryAllocator_free(ga, h.handle)
    IN /\ calls < MaxCalls
       /\ calls' = calls + 1
       /\ ga' = r.ga
       /\ gaRet' = [GANoRet EXCEPT !.op = "free", !.ok = r.ok, !.err = r.err]
       /\ gaLive' = gaLive \ {h}
       /\ gaFreed' = {h.handle}
       /\ UNCHANGED <<globalCamera, flVars, iaVars, utVars, txVars>>

\* a call ga.free(h) with the freed handle the caller kept; it is tried while
\* numDraws > -MaxStale
GA_FreeStale ==
  \E h \in gaFreed :
    LET r == GeometryAllocator_free(ga, h)
    IN /\ ga.numDraws > -MaxStale
       /\ calls < MaxCalls
       /\ calls' = calls + 1
       /\ ga' = r.ga
       /\ gaRet' = [GANoRet EXCEPT !.op = "freeStale", !.ok = r.ok, !.err = r.err]
       /\ UNCHANGED <<globalCamera, gaLive, gaFreed, flVars, iaVars, utVars, txVars>>

\* a call ga.getDrawSpec(camera, drawStarts, drawCounts)
GA_GetDrawSpec ==
  \E cam \in Cameras :
    LET r == GeometryAllocator_getDrawSpec(ga, globalCamera, cam)
    IN /\ calls < MaxCalls
       /\ calls' = calls + 1
       /\ gaRet' = [GANoRet EXCEPT !.op = "getDrawSpec", !.ok = r.ok, !.err = r.err,
                                    !.cam = cam, !.drawStarts = r.drawStarts,
                                    !.drawCounts = r.drawCounts]
       /\ UNCHANGED <<ga, globalCamera, gaLive, gaFreed, flVars, iaVars, utVars, txVars>>

\* the caller frees every handle once
NextGA == GA_Alloc \/ GA_Free \/ GA_GetDrawSpec

SpecGA == InitGA /\ [][NextGA]_vars

\* the caller may free a handle again
NextGAStale == GA_Alloc \/ GA_Free \/ GA_FreeKeep \/ GA_FreeStale \/ GA_GetDrawSpec

SpecGAStale == InitGA /\ [][NextGAStale]_vars

\* ------------------------------------- the InstancedGeometryAllocator in use

InitIA ==
  /\ \E boundingType \in BoundingTypes :
       ia = InstancedGeometryAllocator_new(Geometries, InstancesPerDrawCall,
                                           DrawCallsPerGeometry, boundingType, "null")
  /\ iaRet = IANoRet
  /\ iaLive = {}
  /\ iaFreed = {}
  /\ iaCalls = 0
  /\ FLIdle
  /\ GAIdle
  /\ UTIdle
  /\ TXIdle

\* a call ia.allocDrawCall(geometryIndex, boundingObject); geometryIndex
\* Len(Geometries) is no template
IA_AllocDrawCall ==
  \E geometryIndex \in 0..Len(Geometries), boundingObject \in Volumes :
    LET r == InstancedGeometryAllocator_allocDrawCall(ia, geometryIndex, boundingObject)
    IN /\ iaCalls < MaxDrawCallOps
       /\ iaCalls' = iaCalls + 1
       /\ ia' = r.ia
       /\ iaRet' = [IANoRet EXCEPT !.op = "allocDrawCall", !.ok = r.ok, !.err = r.err,
                    !.drawCall = r.drawCall,
                    !.geometryIndex = geometryIndex, !.boundingObject = boundingObject]
       /\ iaLive' = IF r.ok THEN iaLive \cup {r.drawCall} ELSE iaLive
       /\ UNCHANGED <<iaFreed, flVars, gaVars, utVars, txVars>>

\* a call ia.freeDrawCall(h) with a handle the caller holds
IA_FreeDrawCall ==
  \E h \in iaLive :
    LET r == InstancedGeometryAllocator_freeDrawCall(ia, h)
    IN /\ iaCalls < MaxDrawCallOps
       /\ iaCalls' = iaCalls + 1
       /\ ia' = r.ia
       /\ iaRet' = [IANoRet EXCEPT !.op = "freeDrawCall", !.ok = r.ok, !.err = r.err,
                    !.drawCall = h]
       /\ iaLive' = iaLive \ {h}
       /\ UNCHANGED <<iaFreed, flVars, gaVars, utVars, txVars>>

\* the same call, the caller keeping the freed handle (one at a time)
IA_FreeKeep ==
  \E h \in iaLive :
    LET r == InstancedGeometryAllocator_freeDrawCall(ia, h)
    IN /\ iaCalls < MaxDrawCallOps
       /\ iaCalls' = iaCalls + 1
       /\ ia' = r.ia
       /\ iaRet' = [IANoRet EXCEPT !.op = "freeDrawCall", !.ok = r.ok, !.err = r.err,
                    !.drawCall = h]
       /\ iaLive' = iaLive \ {h}
       /\ iaFreed' = {h}
       /\ UNCHANGED <<flVars, gaVars, utVars, txVars>>

\* a call ia.freeDrawCall(h) with the freed handle the caller kept
IA_FreeStale ==
  \E h \in iaFreed :
    LET r == InstancedGeometryAllocator_freeDrawCall(ia, h)
    IN /\ iaCalls < MaxDrawCallOps
       /\ iaCalls' = iaCalls + 1
       /\ ia' = r.ia
       /\ iaRet' = [IANoRet EXCEPT !.op = "freeStale", !.ok = r.ok, !.err = r.err,
                    !.drawCall = h]
       /\ UNCHANGED <<iaLive, iaFreed, flVars, gaVars, utVars, txVars>>

\* a call h.setInstanceCount(instanceCount) on a live handle, with a count up
\* to one past maxInstancesPerDrawCall
IA_SetInstanceCount ==
  \E h \in iaLive, instanceCount \in 0..(ia.maxInstancesPerDrawCall + 1) :
    /\ iaCalls < MaxDrawCallOps
    /\ iaCalls' = iaCalls + 1
    /\ ia' = InstancedGeometryAllocator_setInstanceCount(ia, h, instanceCount)
    /\ iaRet' = [IANoRet EXCEPT !.op = "setInstanceCount", !.ok = TRUE, !.err = "",
                    !.drawCall = h]
    /\ UNCHANGED <<iaLive, iaFreed, flVars, gaVars, utVars, txVars>>

\* a call h.incrementInstanceCount() on a live handle, tried up to one past
\* maxInstancesPerDrawCall
IA_IncrementInstanceCount ==
  \E h \in iaLive :
    /\ InstancedGeometryAllocator_getInstanceCount(ia, h) <= ia.maxInstancesPerDrawCall
    /\ iaCalls < MaxDrawCallOps
    /\ iaCalls' = iaCalls + 1
    /\ ia' = InstancedGeometryAllocator_incrementInstanceCount(ia, h)
    /\ iaRet' = [IANoRet EXCEPT !.op = "incrementInstanceCount", !.ok = TRUE, !.err = "",
                    !.drawCall = h]
    /\ UNCHANGED <<iaLive, iaFreed, flVars, gaVars, utVars, txVars>>

\* a call h.decrementInstanceCount() on a live handle, tried down to -1
IA_DecrementInstanceCount ==
  \E h \in iaLive :
    /\ InstancedGeometryAllocator_getInstanceCount(ia, h) >= 0
    /\ iaCalls < MaxDrawCallOps
    /\ iaCalls' = iaCalls + 1
    /\ ia' = InstancedGeometryAllocator_decrementInstanceCount(ia, h)
    /\ iaRet' = [IANoRet EXCEPT !.op = "decrementInstanceCount", !.ok = TRUE, !.err = "",
                    !.drawCall = h]
    /\ UNCHANGED <<iaLive, iaFreed, flVars, gaVars, utVars, txVars>>

\* the caller frees every handle once
NextIA ==
  \/ IA_AllocDrawCall
  \/ IA_FreeDrawCall
  \/ IA_SetInstanceCount
  \/ IA_IncrementInstanceCount
  \/ IA_DecrementInstanceCount

SpecIA == InitIA /\ [][NextIA]_vars

\* the caller may free a handle a second time
NextIAStale ==
  \/ IA_AllocDrawCall
  \/ IA_FreeDrawCall
  \/ IA_FreeKeep
  \/ IA_FreeStale
  \/ IA_SetInstanceCount
  \/ IA_IncrementInstanceCount
  \/ IA_DecrementInstanceCount

SpecIAStale == InitIA /\ [][NextIAStale]_vars

\* ----------------------------- the InstancedGeometryAllocator being queried

\* the payloads the caller writes into the rows of the instance texture
Payloads == {"p1", "p2"}

\* the (boundingType, instanceBoundingType) the allocator is built with; the
\* two kinds are the same when both are set
IAConfigs ==
  {<<"null", "null">>, <<"sphere", "null">>, <<"box", "null">>,
   <<"null", "sphere">>, <<"sphere", "sphere">>, <<"box", "box">>}

InitIAQuery ==
  /\ \E cfg \in IAConfigs :
       ia = InstancedGeometryAllocator_new(Geometries, InstancesPerDrawCall,
                                           QueryDrawCallsPerGeometry, cfg[1], cfg[2])
  /\ iaRet = IANoRet
  /\ iaLive = {}
  /\ iaFreed = {}
  /\ iaCalls = 0
  /\ FLIdle
  /\ GAIdle
  /\ UTIdle
  /\ TXIdle

\* the caller writes the payload and the volume of instance j of a live handle
IA_WriteInstance ==
  \E h \in iaLive, j \in 0..(ia.maxInstancesPerDrawCall - 1),
     payload \in Payloads, volume \in Volumes :
    /\ iaCalls < MaxDrawCallOps
    /\ iaCalls' = iaCalls + 1
    /\ ia' = WriteInstance(ia, h, j, payload, volume)
    /\ iaRet' = [IANoRet EXCEPT !.op = "writeInstance", !.drawCall = h]
    /\ UNCHANGED <<iaLive, iaFreed, flVars, gaVars, utVars, txVars>>

\* a call ia.getDrawSpec(camera, [], [], [])
IA_GetDrawSpec ==
  \E cam \in Cameras :
    LET r == InstancedGeometryAllocator_getDrawSpec(ia, cam)
    IN /\ iaCalls < MaxDrawCallOps
       /\ iaCalls' = iaCalls + 1
       /\ ia' = r.ia
       /\ iaRet' = [IANoRet EXCEPT !.op = "getDrawSpec", !.ok = r.ok, !.err = r.err,
                                    !.cam = cam,
                                    !.multiDrawStarts = r.multiDrawStarts,
                                    !.multiDrawCounts = r.multiDrawCounts,
                                    !.multiDrawInstanceCounts = r.multiDrawInstanceCounts,
                                    !.moved = (r.ia.texture # ia.texture),
                                    !.afterMoved = (iaRet.op = "getDrawSpec"
                                                     /\ iaRet.cam = cam /\ iaRet.moved)]
       /\ UNCHANGED <<iaLive, iaFreed, flVars, gaVars, utVars, txVars>>

NextIAQuery ==
  \/ IA_AllocDrawCall
  \/ IA_FreeDrawCall
  \/ IA_SetInstanceCount
  \/ IA_WriteInstance
  \/ IA_GetDrawSpec

SpecIAQuery == InitIAQuery /\ [][NextIAQuery]_vars

\* ------------------- the InstancedGeometryAllocator set up and then queried

\* the calls the caller makes before the first getDrawSpec
MaxSetupOps == 3

\* the caller has not queried the allocator yet and may go on setting it up
IASettingUp == iaRet.op # "getDrawSpec" /\ iaCalls < MaxSetupOps

IAR_AllocDrawCall == IASettingUp /\ IA_AllocDrawCall

IAR_SetInstanceCount == IASettingUp /\ IA_SetInstanceCount

IAR_WriteInstance == IASettingUp /\ IA_WriteInstance

\* once it has called getDrawSpec the caller makes no other call
NextIARepeat ==
  \/ IAR_AllocDrawCall
  \/ IAR_SetInstanceCount
  \/ IAR_WriteInstance
  \/ IA_GetDrawSpec

SpecIARepeat == InitIAQuery /\ [][NextIARepeat]_vars

\* ------------------------------------------------ updateTexture being called

InitUT ==
  /\ \E width \in TextureWidths, itemSize \in ItemSizes,
        p \in 0..MaxItemIndex, n \in 0..MaxItemCount :
       /\ (p + n) * (IF itemSize > 4 THEN itemSize \div 4 ELSE 1) <= width * width
       /\ ut = [UTNoCall EXCEPT !.op = "call", !.width = width, !.itemSize = itemSize,
                                 !.p = p, !.n = n]
  /\ FLIdle
  /\ GAIdle
  /\ IAIdle
  /\ TXIdle

\* the call updateTexture(name, p * itemSize, n * itemSize) for items
\* p..p+n-1, which the texture holds
UpdateTexture ==
  /\ ut.op = "call"
  /\ ut' = [ut EXCEPT !.op = "updateTexture",
                       !.copies = DrawCallBinding_updateTexture(
                                    ut.width, ut.itemSize,
                                    ut.p * ut.itemSize, ut.n * ut.itemSize)]
  /\ UNCHANGED <<flVars, gaVars, iaVars, txVars>>

NextUT == UpdateTexture

SpecUT == InitUT /\ [][NextUT]_vars

\* ------------------------------------------- the textures of the constructor

\* the numbers of template geometries, of draw calls per geometry, of
\* instances per draw call and of slots per geometry the allocator is built with
GeometryCounts == {1, 3, 64}
DrawCallCounts == {1, 16, 256}
InstanceCounts == {1, 32, 512}
SlotCounts == {1, 64, 131072}

InitTX ==
  /\ \E numGeometries \in GeometryCounts, maxDrawCallsPerGeometry \in DrawCallCounts,
        maxInstancesPerDrawCall \in InstanceCounts, maxSlotsPerGeometry \in SlotCounts,
        itemSize \in ItemSizes, instanced \in BOOLEAN :
       tx = [TXNoCall EXCEPT !.op = "spec", !.numGeometries = numGeometries,
                              !.maxDrawCallsPerGeometry = maxDrawCallsPerGeometry,
                              !.maxInstancesPerDrawCall = maxInstancesPerDrawCall,
                              !.maxSlotsPerGeometry = maxSlotsPerGeometry,
                              !.itemSize = itemSize, !.instanced = instanced]
  /\ FLIdle
  /\ GAIdle
  /\ IAIdle
  /\ UTIdle

\* the constructor sizes the texture of the attribute
CreateTexture ==
  /\ tx.op = "spec"
  /\ LET neededItems4 == InstancedGeometryAllocator_neededItems4(
                            tx.numGeometries, tx.maxDrawCallsPerGeometry,
                            tx.maxInstancesPerDrawCall, tx.maxSlotsPerGeometry,
                            tx.itemSize, tx.instanced)
     IN tx' = [tx EXCEPT !.op = "texture", !.neededItems4 = neededItems4,
                          !.textureSizePx = InstancedGeometryAllocator_textureSizePx(neededItems4)]
  /\ UNCHANGED <<flVars, gaVars, iaVars, utVars>>

NextTX == CreateTexture

SpecTX == InitTX /\ [][NextTX]_vars

\* ----------------------------------------------- claims on the FreeList

\* the units [index, index + 2^c) of an allocation <<index, c>>
RangeOf(l) == l[1]..(l[1] + 2^l[2] - 1)

\* the recycler of class c, a class never asked for having a new, empty one
RecyclerView(f, c) ==
  IF c \in DOMAIN f.slots THEN f.slots[c] ELSE FreeListArray_new(c)

\* the circular queue of class c is empty as FreeListArray.alloc tests it
EmptyRecycler(f, c) == RecyclerView(f, c).startIndex = RecyclerView(f, c).endIndex

\* the cursor advanced by 2^c and rounded up to the alignment stays in capacity
Fits(f, c) == _align(f.freeStart + 2^c, f.alignment) <= f.freeEnd

\* the cursor, the recyclers' contents and the index->class map agree
SameFL(f, g) ==
  /\ f.freeStart = g.freeStart
  /\ f.slotSizes = g.slotSizes
  /\ \A c \in SlotClasses : RecyclerView(f, c) = RecyclerView(g, c)

LiveOfClass(c) == Cardinality({l \in live : l[2] = c})

Min(a, b) == IF a <= b THEN a ELSE b

\* the entries of a circular queue between startIndex and endIndex
QueueLen(a) == (a.endIndex - a.startIndex + maxSlotEntries) % maxSlotEntries
QueueSet(a) == {a.entries[(a.startIndex + k) % maxSlotEntries] : k \in 0..(QueueLen(a) - 1)}

\* C1: the ranges [index, index + 2^c) of the live allocations lie in
\* [0, capacity) and are pairwise disjoint, within a class and across classes;
\* an alloc never returns a range that meets a range still live.
C1_LiveRangesDisjoint ==
  /\ [](/\ \A l \in live : RangeOf(l) \subseteq 0..(fl.freeEnd - 1)
        /\ \A l1, l2 \in live : l1 # l2 => RangeOf(l1) \cap RangeOf(l2) = {})
  /\ [][(ret'.op = "alloc" /\ ret'.ok) =>
          \A l \in live : RangeOf(l) \cap RangeOf(<<ret'.index, ret'.cls>>) = {}]_vars

\* C1 witness: three live allocations of at least two classes, the last call
\* an alloc served below the cursor's previous allocations
C1_Witness ==
  /\ Cardinality(live) >= 3
  /\ \E l1, l2 \in live : l1[2] # l2[2]
  /\ ret.op = "alloc" /\ ret.ok
  /\ \E l \in live : l[1] > ret.index

\* C2 (as claimed): while a range of class c is freed and not re-issued, an
\* alloc of class c returns a freed range of class c and leaves freeStart alone.
C2_ReuseBeforeBump ==
  [][(ret'.op = "alloc" /\ \E p \in freed : p[2] = ret'.cls) =>
       /\ ret'.ok
       /\ <<ret'.index, ret'.cls>> \in freed
       /\ fl'.freeStart = fl.freeStart]_vars

C4_InvalidFreeRejected ==
  /\ [](\A c \in DOMAIN fl.slots :
          Cardinality(QueueSet(fl.slots[c])) = QueueLen(fl.slots[c]))
  /\ [][(ret'.op = "free" /\ ret'.was # "live") =>
          /\ ~ret'.ok
          /\ ret'.err \in {"invalid free index", "invalid free slot"}
          /\ fl' = fl]_vars

\* C4 witness: a second free of a freed range was refused while that range
\* waits in its recycler
C4_Witness ==
  /\ ret.op = "free" /\ ret.was = "freed" /\ ~ret.ok
  /\ \E c \in DOMAIN fl.slots : QueueLen(fl.slots[c]) >= 1

\* ---------------------------------------- claims on the GeometryAllocator

\* record i of the draw arrays: start, count and bounding volume
GARecord(g, i) ==
  <<ArrGet(g.drawStarts, i), ArrGet(g.drawCounts, i),
    IF HasBounding(g.boundingType) THEN VolGet(g.boundingData, i) ELSE "none">>

\* the record a live handle was allocated with
GARecordOf(h) ==
  <<h.handle.indexFreeListEntry * BYTES_PER_ELEMENT, h.numIndices, h.bounding>>

\* C5 (as claimed): numDraws is the number of live handles and records
\* 0..numDraws-1 are the records of the live handles, one each.
C5_DensePrefix ==
  /\ ga.numDraws = Cardinality(gaLive)
  /\ \A h \in gaLive :
       Cardinality({i \in 0..(ga.numDraws - 1) : GARecord(ga, i) = GARecordOf(h)}) = 1
  /\ \A i \in 0..(ga.numDraws - 1) : \E h \in gaLive : GARecord(ga, i) = GARecordOf(h)

\* C6 (as claimed): an alloc that fails leaves both FreeLists, numDraws and
\* the draw records as they were.
C6_AllocAllOrNothing ==
  [][(gaRet'.op = "alloc" /\ ~gaRet'.ok) =>
       /\ SameFL(ga.positionFreeList, ga'.positionFreeList)
       /\ SameFL(ga.indexFreeList, ga'.indexFreeList)
       /\ ga'.numDraws = ga.numDraws
       /\ ga'.drawStarts = ga.drawStarts
       /\ ga'.drawCounts = ga.drawCounts
       /\ ga'.boundingData = ga.boundingData]_vars

\* C7 (as claimed): an alloc at numDraws = maxNumDraws fails; numDraws never
\* exceeds maxNumDraws and every live handle has its record in the arrays.
C7_DrawCapacityChecked ==
  /\ [](/\ ga.numDraws <= maxNumDraws
        /\ \A h \in gaLive : \E i \in DOMAIN ga.drawStarts : GARecord(ga, i) = GARecordOf(h))
  /\ [][(gaRet'.op = "alloc" /\ ga.numDraws = maxNumDraws) => ~gaRet'.ok]_vars

\* C8 (as claimed), for GeometryAllocator.free: a free with a handle that was
\* freed before fails and changes nothing of the allocator.
C8_StaleFreeRejected ==
  [][gaRet'.op = "freeStale" => (~gaRet'.ok /\ ga' = ga)]_vars

\* the indices of 0..n-1 whose record passes the frustum test of cam, in order
RECURSIVE GAVisibleFrom(_, _, _)
GAVisibleFrom(g, cam, i) ==
  IF i >= g.numDraws THEN << >>
  ELSE (IF ~HasBounding(g.boundingType) \/ Intersects(cam, VolGet(g.boundingData, i))
          THEN <<i>> ELSE << >>) \o GAVisibleFrom(g, cam, i + 1)

\* C9 (as claimed): getDrawSpec outputs the (start, count) of the records
\* whose volume intersects the camera's frustum, in the order of the arrays,
\* and of all numDraws records when no bounding kind is configured.
C9_DrawSpecIsFrustumCull ==
  gaRet.op = "getDrawSpec" =>
    LET vis == GAVisibleFrom(ga, gaRet.cam, 0) IN
    /\ gaRet.ok
    /\ gaRet.drawStarts = [k \in 1..Len(vis) |-> ArrGet(ga.drawStarts, vis[k])]
    /\ gaRet.drawCounts = [k \in 1..Len(vis) |-> ArrGet(ga.drawCounts, vis[k])]

\* ------------------------------- claims on the InstancedGeometryAllocator

\* the record of slot s: start, count, instance count and bounding volume
IARecord(a, s) ==
  <<ArrGet(a.drawStarts, s), ArrGet(a.drawCounts, s), ArrGet(a.drawInstanceCounts, s),
    IF HasBounding(a.boundingType) THEN VolGet(a.boundingData, s) ELSE "none">>

\* C8 (as claimed), for InstancedGeometryAllocator.freeDrawCall: a free with
\* a handle that was freed before fails and changes nothing of the allocator.
C8_StaleFreeDrawCallRejected ==
  [][iaRet'.op = "freeStale" => (~iaRet'.ok /\ ia' = ia)]_vars

\* C10: no two live handles share a slot, an allocDrawCall never returns the
\* slot of a live handle, and a call leaves the record of the slot of every
\* live handle other than the one it acts on (or returns) as it was.
C10_SlotStability ==
  /\ [](\A h1, h2 \in iaLive : h1.freeListEntry = h2.freeListEntry => h1 = h2)
  /\ [][(iaRet'.op = "allocDrawCall" /\ iaRet'.ok) =>
          \A h \in iaLive : h.freeListEntry # iaRet'.drawCall.freeListEntry]_vars
  /\ [][\A h \in iaLive \cap iaLive' :
          h # iaRet'.drawCall =>
            IARecord(ia', h.freeListEntry) = IARecord(ia, h.freeListEntry)]_vars

\* C10 witness: an allocDrawCall has reused a freed slot below the bump
\* cursor while another live handle holds a slot with a non-zero instance
\* count and the record it was allocated with.
C10_Witness ==
  /\ iaRet.op = "allocDrawCall"
  /\ iaRet.ok
  /\ iaRet.drawCall.freeListEntry + 1 < ia.freeList.freeStart
  /\ \E h \in iaLive :
       /\ h.freeListEntry # iaRet.drawCall.freeListEntry
       /\ ArrGet(ia.drawInstanceCounts, h.freeListEntry) > 0
       /\ ArrGet(ia.drawCounts, h.freeListEntry) = ia.geometryRegistry[h.geometryIndex].count

\* the number of slots of the allocator: N * maxDrawCallsPerGeometry
IANumSlots(a) == Cardinality(DOMAIN a.drawStarts)

\* C11 (as claimed): an allocDrawCall for a template of the registry fails,
\* changing nothing, exactly when every slot is live; otherwise it returns a
\* slot whose record is the template's index start in bytes, the template's
\* index count, instance count 0 and the given bounding volume.
C11_AllocDrawCallInitialises ==
  [][(iaRet'.op = "allocDrawCall" /\ iaRet'.geometryIndex \in DOMAIN ia.geometryRegistry) =>
       IF Cardinality(iaLive) = IANumSlots(ia)
         THEN ~iaRet'.ok /\ ia' = ia
         ELSE /\ iaRet'.ok
              /\ IARecord(ia', iaRet'.drawCall.freeListEntry) =
                   <<ia.geometryRegistry[iaRet'.geometryIndex].start * BYTES_PER_ELEMENT,
                     ia.geometryRegistry[iaRet'.geometryIndex].count,
                     0,
                     IF HasBounding(ia.boundingType) THEN iaRet'.boundingObject ELSE "none">>]_vars

\* C12 (as claimed): the instance count of every slot stays within
\* 0..maxInstancesPerDrawCall.
C12_InstanceCountInRange ==
  \A s \in DOMAIN ia.drawInstanceCounts :
    /\ ia.drawInstanceCounts[s] >= 0
    /\ ia.drawInstanceCounts[s] <= ia.maxInstancesPerDrawCall

\* the slots held by live handles
IALiveSlots == {h.freeListEntry : h \in iaLive}

\* C13 (as claimed): getDrawSpec returns with one entry per slot in each
\* array; a slot whose draw-call volume fails the frustum test, and a slot
\* that is not live, gets (0, 0, 0), a slot that passes gets its stored
\* start and count.
C13_DrawSpecPerSlot ==
  iaRet.op = "getDrawSpec" =>
    /\ iaRet.ok
    /\ DOMAIN iaRet.multiDrawStarts = DOMAIN ia.drawStarts
    /\ DOMAIN iaRet.multiDrawCounts = DOMAIN ia.drawStarts
    /\ DOMAIN iaRet.multiDrawInstanceCounts = DOMAIN ia.drawStarts
    /\ \A i \in DOMAIN ia.drawStarts :
         LET out == <<iaRet.multiDrawStarts[i], iaRet.multiDrawCounts[i],
                      iaRet.multiDrawInstanceCounts[i]>>
         IN /\ (HasBounding(ia.boundingType)
                  /\ ~Intersects(iaRet.cam, VolGet(ia.boundingData, i)))
                 => out = <<0, 0, 0>>
            /\ (HasBounding(ia.boundingType)
                  => Intersects(iaRet.cam, VolGet(ia.boundingData, i)))
                 => /\ out[1] = ia.drawStarts[i]
                    /\ out[2] = ia.drawCounts[i]
            /\ i \notin IALiveSlots => out = <<0, 0, 0>>

\* the instances 0..n-1 of slot i whose volume, as the caller wrote it,
\* intersects the frustum of cam
IAVisibleInstances(a, cam, i) ==
  {j \in 0..(a.drawInstanceCounts[i] - 1) :
     Intersects(cam, VolGet(a.instanceBoundingData, i * a.maxInstancesPerDrawCall + j))}

\* C14 (as claimed): for a slot that passes the draw-call test, with a
\* per-instance bounding kind, getDrawSpec emits the number v of its instances
\* whose volume intersects the frustum, and leaves in rows 0..v-1 of the slot
\* the payloads and the volumes of those v instances, as a multiset.
C14_InstanceCompaction ==
  [][iaRet'.op = "getDrawSpec" =>
       \A i \in DOMAIN ia.drawStarts :
         (/\ ia.instanceBoundingType # "null"
          /\ HasBounding(ia.boundingType)
                => Intersects(iaRet'.cam, VolGet(ia.boundingData, i)))
         => LET startOffset == i * ia.maxInstancesPerDrawCall
                visible == IAVisibleInstances(ia, iaRet'.cam, i)
                v == Cardinality(visible)
            IN /\ iaRet'.ok
               /\ iaRet'.multiDrawInstanceCounts[i] = v
               /\ \A p \in Payloads \cup {"zero"} :
                    Cardinality({j \in 0..(v - 1) : ia'.texture[startOffset + j] = p})
                      = Cardinality({j \in visible : ia.texture[startOffset + j] = p})
               /\ \A b \in Volumes \cup {"origin"} :
                    Cardinality({j \in 0..(v - 1) :
                                   ia'.instanceBoundingData[startOffset + j] = b})
                      = Cardinality({j \in visible :
                                       ia.instanceBoundingData[startOffset + j] = b})]_vars

\* ------------------------------------------------- claims on updateTexture

\* the texels of a sub-image, numbered row by row over the texture
UTTexels(c, width) ==
  {(c.y + dy) * width + c.x + dx : dx \in 0..(c.w - 1), dy \in 0..(c.h - 1)}

\* the pixels of one item: itemSize / 4 for an item of more than 4 channels
UTPixelsPerItem(itemSize) == IF itemSize > 4 THEN itemSize \div 4 ELSE 1

\* C15 (as claimed): the sub-images of an updateTexture of items p..p+n-1
\* are pairwise disjoint and together are exactly the texels that store
\* those items, an item of more than 4 channels taking consecutive pixels.
C15_CopiesCoverRange ==
  ut.op = "updateTexture" =>
    LET k == UTPixelsPerItem(ut.itemSize) IN
    /\ \A a, b \in DOMAIN ut.copies :
         a # b => UTTexels(ut.copies[a], ut.width) \cap UTTexels(ut.copies[b], ut.width) = {}
    /\ UNION {UTTexels(ut.copies[a], ut.width) : a \in DOMAIN ut.copies}
         = (ut.p * k)..((ut.p + ut.n) * k - 1)

\* C16 (as claimed): at most 3 sub-images, none of zero width or height and
\* none for an empty range; 1 for a range within one row, 2 for a range from
\* column 0 over whole rows and a partial last row, 3 only for a range from
\* a non-zero column over at least one whole row to a non-zero column.
C16_AtMostThreeCopies ==
  ut.op = "updateTexture" =>
    LET first == ut.p
        end == ut.p + ut.n
        W == ut.width
    IN /\ Len(ut.copies) <= 3
       /\ \A a \in DOMAIN ut.copies : ut.copies[a].w > 0 /\ ut.copies[a].h > 0
       /\ ut.n = 0 => Len(ut.copies) = 0
       /\ (ut.n > 0 /\ first \div W = (end - 1) \div W) => Len(ut.copies) = 1
       /\ (first % W = 0 /\ ut.n > W /\ end % W # 0) => Len(ut.copies) = 2
       /\ Len(ut.copies) = 3 =>
            /\ first % W # 0
            /\ end % W # 0
            /\ (end \div W) - (first \div W) >= 2

\* ------------------------------------------- further claims on the FreeList

\* C17: a successful alloc(size) returns the start of 2^c units inside the
\* address range, with size <= 2^c < 2 * size, taken off the bump cursor or
\* out of the recycler, and records c for the index in the index->class map.
C17_PowerOfTwoClass ==
  [][(ret'.op = "alloc" /\ ret'.ok) =>
       LET c == fl'.slotSizes[ret'.index] IN
       /\ ret'.index \in DOMAIN fl'.slotSizes
       /\ 2^c >= ret'.size
       /\ 2^c < 2 * ret'.size
       /\ ret'.index >= 0
       /\ ret'.index + 2^c <= fl'.freeEnd
       /\ ret'.index + 2^c <= fl'.freeStart
       /\ \A l \in live : RangeOf(l) \cap RangeOf(<<ret'.index, c>>) = {}]_vars

\* C17 witness: an alloc(3) has returned a range of class 2, four units.
C17_Witness ==
  /\ ret.op = "alloc"
  /\ ret.ok
  /\ ret.size = 3
  /\ fl.slotSizes[ret.index] = 2
  /\ ret.index + 4 <= fl.freeEnd

\* the freed ranges of class c that wait to be reallocated, oldest first
PendingOfClass(c) == SelectSeq(pending, LAMBDA e : e[2] = c)

\* C18 (as claimed): an alloc of a class with freed ranges waiting returns
\* the one that was freed first, so that ranges freed in the order a, b come
\* back in the order a, b, for any number of waiting ranges up to
\* maxSlotEntries.
C18_FifoReuse ==
  [][(/\ ret'.op = "alloc"
      /\ Len(PendingOfClass(ret'.cls)) >= 1
      /\ Len(PendingOfClass(ret'.cls)) <= maxSlotEntries) =>
       /\ ret'.ok
       /\ ret'.index = PendingOfClass(ret'.cls)[1][1]]_vars

\* the number of entries of the circular queue of class c that hold index
QueueCount(f, c, index) ==
  LET a == RecyclerView(f, c) IN
  Cardinality({k \in 0..(QueueLen(a) - 1) :
                 a.entries[(a.startIndex + k) % maxSlotEntries] = index})

\* C19 (as claimed): every range that was handed out and freed is exactly
\* once in its class's circular queue between startIndex and endIndex, the
\* queue holds nothing else, and a free that would overflow the queue fails.
C19_NoFreedRangeLost ==
  /\ \A l \in freed : QueueCount(fl, l[2], l[1]) = 1
  /\ \A c \in SlotClasses :
       QueueLen(RecyclerView(fl, c)) = Cardinality({l \in freed : l[2] = c})

\* C20: freeStart stays within 0..capacity and never decreases; a free and
\* an alloc that finds an entry in its class's recycler leave it alone; it
\* advances only on a successful alloc that found the recycler of its class
\* empty, which returns the old cursor.
C20_CursorMonotonic ==
  /\ [](fl.freeStart >= 0 /\ fl.freeStart <= fl.freeEnd)
  /\ [][/\ fl'.freeStart >= fl.freeStart
         /\ (ret'.op = "free" => fl'.freeStart = fl.freeStart)
         /\ ((ret'.op = "alloc" /\ ~EmptyRecycler(fl, ret'.cls))
               => fl'.freeStart = fl.freeStart)
         /\ (fl'.freeStart > fl.freeStart
               => /\ ret'.op = "alloc"
                  /\ ret'.ok
                  /\ EmptyRecycler(fl, ret'.cls)
                  /\ ret'.index = fl.freeStart)]_vars

\* C20 witness: the cursor has advanced, a range was freed, and an alloc
\* served from the recycler has returned a range below the cursor.
C20_Witness ==
  /\ ret.op = "alloc"
  /\ ret.ok
  /\ fl.freeStart > 0
  /\ fl.freeStart < fl.freeEnd
  /\ ret.index + 2^ret.cls < fl.freeStart
  /\ freed # {}

\* ------------------------------- further claims on the GeometryAllocator

\* the positions below numDraws that hold the record of the live handle h
GAPositions(g, h) == {i \in 0..(g.numDraws - 1) : GARecord(g, i) = GARecordOf(h)}

\* the range that starts at index waits in the queue of its class c of FreeList f
GAReleased(f, c, index) ==
  /\ index \notin DOMAIN f.slotSizes
  /\ QueueCount(f, c, index) = 1

\* C21 (as claimed): a free of a live handle h succeeds, finds h's record at
\* its one position below numDraws, moves the record at numDraws - 1 there,
\* leaves every other live record where it was, decrements numDraws and
\* leaves both of h's ranges waiting in the recyclers of their classes.
C21_FreeRemovesOwnRecord ==
  [][gaRet'.op = "free" =>
       \A h \in gaLive \ gaLive' :
         LET lastIndex == ga.numDraws - 1
             p == h.handle.positionFreeListEntry
             x == h.handle.indexFreeListEntry
         IN /\ gaRet'.ok
            /\ Cardinality(GAPositions(ga, h)) = 1
            /\ ga'.numDraws = ga.numDraws - 1
            /\ \A h2 \in gaLive' :
                 GAPositions(ga', h2) = IF GAPositions(ga, h2) = {lastIndex}
                                          THEN GAPositions(ga, h)
                                          ELSE GAPositions(ga, h2)
            /\ p \in DOMAIN ga.positionFreeList.slotSizes
            /\ x \in DOMAIN ga.indexFreeList.slotSizes
            /\ GAReleased(ga'.positionFreeList, ga.positionFreeList.slotSizes[p], p)
            /\ GAReleased(ga'.indexFreeList, ga.indexFreeList.slotSizes[x], x)]_vars

\* --------------------------------------------- the sides of the textures

RECURSIVE IsPowerOf2(_)
IsPowerOf2(n) == n = 1 \/ (n > 1 /\ n % 2 = 0 /\ IsPowerOf2(n \div 2))

\* C22 (as claimed): the side of a texture is a power of two, the texture
\* holds the pixels its items need, and no smaller power of two would.
C22_SmallestPowerOfTwoSide ==
  tx.op = "texture" =>
    /\ IsPowerOf2(tx.textureSizePx)
    /\ tx.textureSizePx * tx.textureSizePx >= tx.neededItems4
    /\ \/ tx.textureSizePx = 1
       \/ (tx.textureSizePx \div 2) * (tx.textureSizePx \div 2) < tx.neededItems4

\* ------------------------------------------------- getDrawSpec called twice

IASlotOfRow(a, k) == k \div a.maxInstancesPerDrawCall

\* row k is one of the instances getDrawSpec goes through when it compacts
\* the slot whose range holds it
IARowCompacted(a, k) ==
  LET s == IASlotOfRow(a, k) IN
  /\ a.instanceBoundingType # "null"
  /\ k - s * a.maxInstancesPerDrawCall < ArrGet(a.drawInstanceCounts, s)

\* C24 (as claimed): a getDrawSpec of the GeometryAllocator leaves the
\* allocator as it was; one of the InstancedGeometryAllocator leaves the
\* records of the draw calls and the slot FreeList as they were, and changes
\* a row of the instance texture or an instance's bounding entry only if it
\* is an instance of the slot being compacted.
C24_DrawSpecKeepsBookkeeping ==
  /\ [][gaRet'.op = "getDrawSpec" => ga' = ga]_vars
  /\ [][iaRet'.op = "getDrawSpec" =>
          /\ ia'.drawStarts = ia.drawStarts
          /\ ia'.drawCounts = ia.drawCounts
          /\ ia'.drawInstanceCounts = ia.drawInstanceCounts
          /\ ia'.boundingData = ia.boundingData
          /\ ia'.freeList = ia.freeList
          /\ \A k \in DOMAIN ia.texture :
               ia'.texture[k] # ia.texture[k] => IARowCompacted(ia, k)
          /\ \A k \in DOMAIN ia.instanceBoundingData :
               ia'.instanceBoundingData[k] # ia.instanceBoundingData[k]
                 => IARowCompacted(ia, k)]_vars

\* ------------------------------------------------------------- alignment

\* the binding GeometryAllocator.alloc builds around a position range start
PositionBinding(index) == [positionFreeListEntry |-> index, indexFreeListEntry |-> 0]

\* the attribute offsets of a binding are whole numbers
WholeOffsets(geometryBinding) ==
  \A itemSize \in AttributeItemSizes :
    GeometryPositionIndexBinding_getAttributeOffset(geometryBinding, itemSize).thirds = 0

\* C25: every index a FreeList.alloc returns, and every range start held, is
\* a multiple of the alignment of the FreeList; with alignment 3, as for the
\* positions of the GeometryAllocator, the start is a multiple of 3 and
\* getAttributeOffset of its binding is a whole number for every item size.
C25_AllocAligned ==
  /\ ret.op = "alloc" /\ ret.ok =>
       /\ ret.index % fl.alignment = 0
       /\ fl.alignment = 3 => WholeOffsets(PositionBinding(ret.index))
  /\ \A l \in live : l[1] % fl.alignment = 0
  /\ \A h \in gaLive :
       /\ h.handle.positionFreeListEntry % ga.positionFreeList.alignment = 0
       /\ h.handle.positionFreeListEntry % 3 = 0
       /\ WholeOffsets(h.handle)

\* an alloc of size 2 on a FreeList of alignment 3 that has seen a free
\* returns a start above 0
C25_Witness ==
  /\ ret.op = "alloc" /\ ret.ok /\ ret.size = 2
  /\ fl.alignment = 3 /\ ret.index > 0 /\ freed # {}

====
